---- MODULE Spec2Model ----
(***************************************************************************)
(* A model of pomoxis/common/util.py: the read selection of               *)
(* extract_long_reads, the region decoder of parse_regions and the        *)
(* quality handling of fast_convert.                                      *)
(*                                                                         *)
(* Python sequences are 0-based; the sequences here are 1-based, so the   *)
(* read with Python index i is the read i+1 of the model.                 *)
(***************************************************************************)
EXTENDS Integers, Sequences, FiniteSets, TLC

(***************************************************************************)
(* Bounds of the model.                                                    *)
(***************************************************************************)
MaxNumReads == 3

MaxStrLen == 5

MaxRegions == 2

MaxRecords == 2

MaxSeqLen == 2

ReadLengths == {10, 50, 100}

Budgets == {0, 10, 25, 60, 120, 160, 300}

Percentages == {-150, -100, -34, 0, 34, 50, 67, 100, 150}

VARIABLES
    pc,         \* position in the function being run
    lengths,    \* lengths[i]: the length of read i (np.fromiter, line 149)
    mode,       \* "longest" (args.bases is None) or "bases"
    threshold,  \* args.longest or args.bases
    wantOthers, \* args.others is not None
    order,      \* np.argsort(lengths)[::-1]
    ascending,  \* np.argsort(lengths), the sequence the loop iterates
    cumsum,
    last,
    i,          \* the loop counter of enumerate(..., 1)
    longest,    \* the index array `longest`
    output,     \* ids written to args.output, in the order written
    others,     \* ids written to args.others, in the order written
    regions,    \* parse_regions: the region strings, each a sequence of characters
    ref_lengths,\* parse_regions: the ref_lengths argument
    region_i,   \* parse_regions: the place of the loop in regions
    decoded,    \* parse_regions: the list `decoded`
    result,     \* parse_regions: the tuple returned
    ppc,        \* parse_regions: position, or the exception raised
    convert,    \* fast_convert: args.convert
    discard_q,  \* fast_convert: args.discard_q
    mock_q,     \* fast_convert: args.mock_q
    records,    \* fast_convert: the records of sys.stdin
    in_fmt,
    out_fmt,
    qflag,
    rec_i,      \* fast_convert: the next record to read
    written,    \* fast_convert: the records written to sys.stdout
    cpc         \* fast_convert: position

selVars == <<pc, lengths, mode, threshold, wantOthers, order, ascending,
             cumsum, last, i, longest, output, others>>

parseVars == <<regions, ref_lengths, region_i, decoded, result, ppc>>

convVars == <<convert, discard_q, mock_q, records, in_fmt, out_fmt, qflag,
              rec_i, written, cpc>>

vars == <<selVars, parseVars, convVars>>

(***************************************************************************)
(* Helpers on sequences.                                                   *)
(***************************************************************************)
Range(s) == {s[k] : k \in DOMAIN s}

Reverse(s) == [k \in 1..Len(s) |-> s[Len(s) + 1 - k]]

Perms(n) == {p \in [1..n -> 1..n] : \A a, b \in 1..n : p[a] = p[b] => a = b}

RECURSIVE SumOver(_, _)
SumOver(idx, lens) ==
    IF idx = <<>> THEN 0 ELSE lens[Head(idx)] + SumOver(Tail(idx), lens)

\* int(x) of Python truncates toward zero; \div of TLA+ rounds down.
TruncDiv(a, b) == IF a >= 0 THEN a \div b ELSE -((-a) \div b)

\* a[start:] of Python, start a 0-based and possibly negative index.
SliceFrom(s, start) ==
    LET n   == Len(s)
        st0 == IF start < 0 THEN start + n ELSE start
        st  == IF st0 < 0 THEN 0 ELSE IF st0 > n THEN n ELSE st0
    IN  SubSeq(s, st + 1, n)

\* a[:stop] of Python, stop >= 0.
SliceTo(s, stop) == SubSeq(s, 1, IF stop > Len(s) THEN Len(s) ELSE stop)

\* Option values: None is <<>>, the value v is <<v>>.
None == <<>>

Some(v) == <<v>>

(***************************************************************************)
(* The state of a function that is not running.                            *)
(***************************************************************************)
SelIdle ==
    /\ pc = "idle"
    /\ lengths = <<>>
    /\ mode = "bases"
    /\ threshold = 0
    /\ wantOthers = FALSE
    /\ order = <<>>
    /\ ascending = <<>>
    /\ cumsum = 0
    /\ last = 0
    /\ i = 0
    /\ longest = <<>>
    /\ output = <<>>
    /\ others = <<>>

ParseIdle ==
    /\ regions = <<>>
    /\ ref_lengths = [given |-> FALSE, map |-> <<>>]
    /\ region_i = 0
    /\ decoded = <<>>
    /\ result = <<>>
    /\ ppc = "idle"

ConvIdle ==
    /\ convert = "qa"
    /\ discard_q = FALSE
    /\ mock_q = 0
    /\ records = <<>>
    /\ in_fmt = ""
    /\ out_fmt = ""
    /\ qflag = FALSE
    /\ rec_i = 0
    /\ written = <<>>
    /\ cpc = "idle"

(***************************************************************************)
(* extract_long_reads                                                      *)
(***************************************************************************)
NumReads == Len(lengths)

\* max_reads = int(len(ids) * (args.longest / 100)).  For the read counts and
\* percentages of this model the double product n * (P / 100) truncates to the
\* same integer as the exact quotient n * P / 100.
MaxReadsOf(n, pct) == TruncDiv(n * pct, 100)

\* numpy normalises a negative kth by adding the axis length.
NormKth(kth, n) == IF kth < 0 THEN kth + n ELSE kth

KthOutOfBoundsAlways(kth, n) == NormKth(kth, n) < 0 \/ NormKth(kth, n) >= n

\* numpy raises ValueError("kth(=..) out of bounds") unless the array is empty.
KthOutOfBounds(kth, n) == n # 0 /\ (NormKth(kth, n) < 0 \/ NormKth(kth, n) >= n)

\* np.argsort(lens): the index permutations that put lens in ascending order;
\* the default sort is not stable, so equal lengths come in any order.
ArgSorts(lens) ==
    {p \in Perms(Len(lens)) :
        \A a, b \in 1..Len(lens) : a < b => lens[p[a]] <= lens[p[b]]}

\* np.argpartition(lens, kth): the index permutations with the kth smallest
\* element in (0-based) place kth, nothing larger before it and nothing
\* smaller after it.
ArgPartitions(lens, kth) ==
    LET n == Len(lens)
        k == NormKth(kth, n) + 1
    IN  IF n = 0 THEN {<<>>}
        ELSE {p \in Perms(n) :
                /\ \A a \in 1..(k - 1) : lens[p[a]] <= lens[p[k]]
                /\ \A a \in (k + 1)..n : lens[p[a]] >= lens[p[k]]}

ScanInitLastZero == [cumsum |-> 0, last |-> 0]

\* cumsum = 0; last = 1
ScanInit == [cumsum |-> 0, last |-> 1]

OthersIdsShort(n, sel) ==
    SelectSeq([k \in 1..(n - 1) |-> k], LAMBDA k : k \notin Range(sel))

\* (i for i in range(len(ids)) if i not in longest)
OthersIds(n, sel) == SelectSeq([k \in 1..n |-> k], LAMBDA k : k \notin Range(sel))

SelInit ==
    /\ pc = "sort"
    /\ lengths \in UNION {[1..n -> ReadLengths] : n \in 0..MaxNumReads}
    /\ mode \in {"longest", "bases"}
    /\ threshold \in (IF mode = "longest" THEN Percentages ELSE Budgets)
    /\ wantOthers \in BOOLEAN
    /\ order = <<>>
    /\ ascending = <<>>
    /\ cumsum = 0
    /\ last = 0
    /\ i = 0
    /\ longest = <<>>
    /\ output = <<>>
    /\ others = <<>>
    /\ ParseIdle
    /\ ConvIdle

\* lines 154-157, np.argpartition raising
PartitionFails ==
    /\ pc = "sort"
    /\ mode = "longest"
    /\ KthOutOfBounds(-MaxReadsOf(NumReads, threshold), NumReads)
    /\ pc' = "ValueError"
    /\ UNCHANGED <<lengths, mode, threshold, wantOthers, order, ascending,
                   cumsum, last, i, longest, output, others,
                   parseVars, convVars>>

\* lines 154-157
Partition ==
    /\ pc = "sort"
    /\ mode = "longest"
    /\ LET max_reads == MaxReadsOf(NumReads, threshold)
       IN  /\ ~KthOutOfBounds(-max_reads, NumReads)
           /\ \E p \in ArgPartitions(lengths, -max_reads) :
                 longest' = SliceFrom(p, -max_reads)
    /\ pc' = "write"
    /\ UNCHANGED <<lengths, mode, threshold, wantOthers, order, ascending,
                   cumsum, last, i, output, others,
                   parseVars, convVars>>

\* lines 158-163: the two argsort calls and the loop's initial values
FullSort ==
    /\ pc = "sort"
    /\ mode = "bases"
    /\ \E p \in ArgSorts(lengths) :
          /\ ascending' = p
          /\ order' = Reverse(p)
    /\ cumsum' = ScanInit.cumsum
    /\ last' = ScanInit.last
    /\ i' = 1
    /\ pc' = "scan"
    /\ UNCHANGED <<lengths, mode, threshold, wantOthers, longest, output, others,
                   parseVars, convVars>>

\* lines 163-167: one iteration of the loop
ScanStep ==
    /\ pc = "scan"
    /\ i <= Len(ascending)
    /\ cumsum' = cumsum + lengths[ascending[i]]
    /\ IF cumsum' > threshold
          THEN /\ pc' = "slice"
               /\ UNCHANGED <<last, i>>
          ELSE /\ last' = i
               /\ i' = i + 1
               /\ pc' = "scan"
    /\ UNCHANGED <<lengths, mode, threshold, wantOthers, order, ascending,
                   longest, output, others,
                   parseVars, convVars>>

\* line 163: the iterator is exhausted
ScanEnd ==
    /\ pc = "scan"
    /\ i > Len(ascending)
    /\ pc' = "slice"
    /\ UNCHANGED <<lengths, mode, threshold, wantOthers, order, ascending,
                   cumsum, last, i, longest, output, others,
                   parseVars, convVars>>

\* line 168
Slice ==
    /\ pc = "slice"
    /\ longest' = SliceTo(order, last)
    /\ pc' = "write"
    /\ UNCHANGED <<lengths, mode, threshold, wantOthers, order, ascending,
                   cumsum, last, i, output, others,
                   parseVars, convVars>>

\* lines 170-173
WriteSelected ==
    /\ pc = "write"
    /\ output' = longest
    /\ pc' = IF wantOthers THEN "others" ELSE "done"
    /\ UNCHANGED <<lengths, mode, threshold, wantOthers, order, ascending,
                   cumsum, last, i, longest, others,
                   parseVars, convVars>>

\* lines 175-180
WriteOthers ==
    /\ pc = "others"
    /\ others' = OthersIds(NumReads, longest)
    /\ pc' = "done"
    /\ UNCHANGED <<lengths, mode, threshold, wantOthers, order, ascending,
                   cumsum, last, i, longest, output,
                   parseVars, convVars>>

SelNext ==
    \/ PartitionFails
    \/ Partition
    \/ FullSort
    \/ ScanStep
    \/ ScanEnd
    \/ Slice
    \/ WriteSelected
    \/ WriteOthers

SpecSelect == SelInit /\ [][SelNext]_vars

(***************************************************************************)
(* parse_regions                                                           *)
(***************************************************************************)
Letters == {"a"}

Digits == {"0", "1"}

\* \w of the regular expression
WordChars == Letters \cup Digits

Alphabet == WordChars \cup {":", "-"}

DigitVal == [c \in Digits |-> IF c = "0" THEN 0 ELSE 1]

Strings == UNION {[1..n -> Alphabet] : n \in 0..MaxStrLen}

\* The well-formed string that fills the other places of a batch.
Sample == <<"a", ":", "1", "-", "0">>

\* A batch of n strings with the string s at place k.
Batch(n, k, s) == [j \in 1..n |-> IF j = k THEN s ELSE Sample]

\* ref_lengths=None, or a dict
RefLengthsChoices ==
    {[given |-> FALSE, map |-> <<>>],
     [given |-> TRUE, map |-> (<<"a">> :> 7)]}

\* The number of consecutive characters of s from place p on that are in S.
RECURSIVE RunLen(_, _, _)
RunLen(s, p, S) ==
    IF p <= Len(s) /\ s[p] \in S THEN 1 + RunLen(s, p + 1, S) ELSE 0

\* (\d+-)* from place p: the place after the last repetition.  Each
\* repetition is a maximal run of digits followed by '-'.
RECURSIVE StartGroupEnd(_, _)
StartGroupEnd(s, p) ==
    LET d == RunLen(s, p, Digits)
    IN  IF d > 0 /\ p + d <= Len(s) /\ s[p + d] = "-"
        THEN StartGroupEnd(s, p + d + 1)
        ELSE p

\* A decoder that reads the digits after the colon as the start.
RegionMatchStartFirst(s) ==
    LET w  == RunLen(s, 1, WordChars)
        c  == RunLen(s, w + 1, {":"})
        sb == w + c + 1
        d  == RunLen(s, sb, Digits)
        h  == IF sb + d <= Len(s) /\ s[sb + d] = "-" THEN 1 ELSE 0
        e  == RunLen(s, sb + d + h, Digits)
    IN  [matched  |-> w > 0,
         ref_name |-> SubSeq(s, 1, w),
         start    |-> SubSeq(s, sb, sb + d - 1),
         end      |-> SubSeq(s, sb + d + h, sb + d + h + e - 1)]

\* _region_decoder_.match(s): every part after \w+ can match the empty string,
\* so the greedy choice of each part is never given back, and the match
\* fails only when s does not begin with a word character.
RegionMatch(s) ==
    LET w  == RunLen(s, 1, WordChars)
        c  == RunLen(s, w + 1, {":"})
        sb == w + c + 1
        se == StartGroupEnd(s, sb)
        e  == RunLen(s, se, Digits)
    IN  [matched  |-> w > 0,
         ref_name |-> SubSeq(s, 1, w),
         start    |-> SubSeq(s, sb, se - 1),
         end      |-> SubSeq(s, se, se + e - 1)]

\* str.replace('-', '')
RemoveDashes(s) == SelectSeq(s, LAMBDA c : c # "-")

\* int(s) for a non-empty string of digits
RECURSIVE StrToInt(_)
StrToInt(s) ==
    IF s = <<>> THEN 0
    ELSE 10 * StrToInt(SubSeq(s, 1, Len(s) - 1)) + DigitVal[s[Len(s)]]

\* None if d[key] == '' else int(d[key])
IntOrNone(s) == IF s = <<>> THEN None ELSE Some(StrToInt(s))

\* d['start'] = 0 if d['start'] is None else d['start']
StartOrZero(v) == IF v = None THEN 0 ELSE v[1]

\* lines 205-208: the Region before the ref_lengths default
DecodeGroups(m) ==
    [ref_name |-> m.ref_name,
     start    |-> StartOrZero(IntOrNone(RemoveDashes(m.start))),
     end      |-> IntOrNone(m.end)]

NeedsLookup(d) == d.end = None /\ ref_lengths.given

ParseInit ==
    /\ \/ regions = <<>>
       \/ \E n \in 1..MaxRegions, k \in 1..MaxRegions, s \in Strings :
             k <= n /\ regions = Batch(n, k, s)
    /\ ref_lengths \in RefLengthsChoices
    /\ region_i = 1
    /\ decoded = <<>>
    /\ result = <<>>
    /\ ppc = "loop"
    /\ SelIdle
    /\ ConvIdle

\* line 204: match returns None and None.groupdict() raises
DecodeNoMatch ==
    /\ ppc = "loop"
    /\ region_i <= Len(regions)
    /\ ~RegionMatch(regions[region_i]).matched
    /\ ppc' = "AttributeError"
    /\ UNCHANGED <<regions, ref_lengths, region_i, decoded, result, selVars,
                   convVars>>

\* line 210: the reference name is not a key of ref_lengths
DecodeKeyError ==
    /\ ppc = "loop"
    /\ region_i <= Len(regions)
    /\ LET m == RegionMatch(regions[region_i])
       IN  /\ m.matched
           /\ NeedsLookup(DecodeGroups(m))
           /\ m.ref_name \notin DOMAIN ref_lengths.map
    /\ ppc' = "KeyError"
    /\ UNCHANGED <<regions, ref_lengths, region_i, decoded, result, selVars,
                   convVars>>

\* lines 203-211: one iteration of the loop
DecodeRegion ==
    /\ ppc = "loop"
    /\ region_i <= Len(regions)
    /\ LET m == RegionMatch(regions[region_i])
           d == DecodeGroups(m)
       IN  /\ m.matched
           /\ NeedsLookup(d) => m.ref_name \in DOMAIN ref_lengths.map
           /\ decoded' = Append(decoded,
                 IF NeedsLookup(d)
                 THEN [d EXCEPT !.end = Some(ref_lengths.map[d.ref_name])]
                 ELSE d)
    /\ region_i' = region_i + 1
    /\ UNCHANGED <<regions, ref_lengths, result, ppc, selVars,
                   convVars>>

\* line 212
ReturnDecoded ==
    /\ ppc = "loop"
    /\ region_i > Len(regions)
    /\ result' = decoded
    /\ ppc' = "done"
    /\ UNCHANGED <<regions, ref_lengths, region_i, decoded, selVars,
                   convVars>>

ParseNext ==
    \/ DecodeNoMatch
    \/ DecodeKeyError
    \/ DecodeRegion
    \/ ReturnDecoded

SpecParse == ParseInit /\ [][ParseNext]_vars

(***************************************************************************)
(* fast_convert                                                            *)
(***************************************************************************)
\* default=10 of --mock_q
DefaultMockQ == 10

MockQs == {DefaultMockQ, 40}

Qualities == {10, 30}

\* A fastq record: a sequence of `len` letters with one quality per letter.
FastqRecords ==
    UNION {{[len |-> n, quality |-> Some(q)] : q \in [1..n -> Qualities]} :
           n \in 0..MaxSeqLen}

\* A fasta record has no quality.
FastaRecords == {[len |-> n, quality |-> None] : n \in 0..MaxSeqLen}

Inputs(recs) == UNION {[1..n -> recs] : n \in 0..MaxRecords}

\* `args.discard_q is not None`: a store_true argument is False or True.
DiscardQIsNotNone(d) == d \in {FALSE, TRUE}

\* rec.letter_annotations["phred_quality"] = [args.mock_q] * len(rec)
MockQuality(rec, q) == [rec EXCEPT !.quality = Some([k \in 1..rec.len |-> q])]

\* What SeqIO writes of a record: fasta holds no quality.
WriteAs(rec, fmt) == IF fmt = "fastq" THEN rec ELSE [rec EXCEPT !.quality = None]

ConvInit ==
    /\ convert \in {"qq", "aa", "aq", "qa"}
    /\ discard_q \in BOOLEAN
    /\ mock_q \in MockQs
    /\ records \in Inputs(IF convert \in {"qq", "qa"} THEN FastqRecords
                                                     ELSE FastaRecords)
    /\ in_fmt = ""
    /\ out_fmt = ""
    /\ qflag = FALSE
    /\ rec_i = 1
    /\ written = <<>>
    /\ cpc = "args"
    /\ SelIdle
    /\ ParseIdle

\* lines 93-109
SetFormats ==
    /\ cpc = "args"
    /\ in_fmt' = IF convert \in {"aa", "aq"} THEN "fasta" ELSE "fastq"
    /\ out_fmt' = IF convert \in {"qq", "aq"} THEN "fastq" ELSE "fasta"
    /\ qflag' = IF convert = "qq" THEN DiscardQIsNotNone(discard_q)
                ELSE convert = "aq"
    /\ cpc' = "records"
    /\ UNCHANGED <<convert, discard_q, mock_q, records, rec_i, written,
                   selVars, parseVars>>

\* lines 111-117: one record through fq_gen and SeqIO.write
WriteMocked ==
    /\ cpc = "records"
    /\ qflag
    /\ rec_i <= Len(records)
    /\ written' = Append(written, WriteAs(MockQuality(records[rec_i], mock_q), out_fmt))
    /\ rec_i' = rec_i + 1
    /\ UNCHANGED <<convert, discard_q, mock_q, records, in_fmt, out_fmt, qflag,
                   cpc, selVars, parseVars>>

\* line 119: one record through SeqIO.convert
WriteConverted ==
    /\ cpc = "records"
    /\ ~qflag
    /\ rec_i <= Len(records)
    /\ written' = Append(written, WriteAs(records[rec_i], out_fmt))
    /\ rec_i' = rec_i + 1
    /\ UNCHANGED <<convert, discard_q, mock_q, records, in_fmt, out_fmt, qflag,
                   cpc, selVars, parseVars>>

\* the input is exhausted
ConvertDone ==
    /\ cpc = "records"
    /\ rec_i > Len(records)
    /\ cpc' = "done"
    /\ UNCHANGED <<convert, discard_q, mock_q, records, in_fmt, out_fmt, qflag,
                   rec_i, written, selVars, parseVars>>

ConvNext ==
    \/ SetFormats
    \/ WriteMocked
    \/ WriteConverted
    \/ ConvertDone

SpecConvert == ConvInit /\ [][ConvNext]_vars

(***************************************************************************)
(* Properties of extract_long_reads.                                       *)
(***************************************************************************)
Selected == Range(output)

SumOfTop(k) == SumOver(SubSeq(order, 1, k), lengths)

\* The number of reads of the longest prefix of the descending order whose
\* running total stays within the budget, and one when even the longest
\* read alone exceeds it.
BudgetCount(budget) ==
    LET fits == {k \in 0..NumReads : SumOfTop(k) <= budget}
        best == CHOOSE k \in fits : \A m \in fits : m <= k
    IN  IF fits = {} \/ best = 0 THEN 1 ELSE best

BasesDone == pc = "done" /\ mode = "bases" /\ NumReads > 0

\* C1: in base-budget mode the selected reads are exactly the longest prefix
\* of the descending-length order whose running total does not exceed the
\* budget, or the single longest read when that read alone exceeds it.
C1_BudgetPrefix ==
    BasesDone => Selected = Range(SubSeq(order, 1, BudgetCount(threshold)))

\* C2: in base-budget mode either exactly one read is selected, or the
\* selected reads without the last admitted (shortest) one total at most the
\* budget.
C2_SoftCap ==
    BasesDone =>
        \/ Len(output) = 1
        \/ SumOver(SubSeq(output, 1, Len(output) - 1), lengths) <= threshold

\* C3: in base-budget mode a non-empty input always gives a non-empty
\* selection, whatever the budget.
C3_NonEmpty == BasesDone => Len(output) >= 1 /\ Selected # {}

C3_Witness ==
    /\ BasesDone
    /\ \A k \in 1..NumReads : lengths[k] > threshold
    /\ NumReads >= 2
    /\ Len(output) = 1

\* C4: in percentage mode with 0 <= P <= 100 the selection holds exactly
\* floor(n * P / 100) reads, none of them shorter than an unselected read.
C4_TopPercent ==
    (pc = "done" /\ mode = "longest" /\ threshold >= 0 /\ threshold <= 100) =>
        /\ Len(output) = (NumReads * threshold) \div 100
        /\ Cardinality(Selected) = (NumReads * threshold) \div 100
        /\ \A s \in Selected : \A u \in (1..NumReads) \ Selected :
              lengths[s] >= lengths[u]

\* C5: when the others output is requested, every input read is written to
\* exactly one of the two outputs, in both modes.
C5_Partition ==
    (pc = "done" /\ wantOthers) =>
        /\ Selected \cap Range(others) = {}
        /\ Selected \cup Range(others) = 1..NumReads
        /\ Len(output) + Len(others) = NumReads

C5_Witness ==
    /\ pc = "done"
    /\ wantOthers
    /\ mode = "bases"
    /\ Len(output) >= 1
    /\ Len(others) >= 2

\* C6: on an empty input the selection never raises, runs to its end in both
\* modes for every threshold, and writes no selected and no other read.
C6_EmptyInput ==
    (NumReads = 0) =>
        /\ pc # "ValueError"
        /\ (pc # "done") => ENABLED SelNext
        /\ (pc = "done") => (output = <<>> /\ others = <<>>)

C6_Witness ==
    /\ NumReads = 0
    /\ pc = "done"
    /\ mode = "longest"
    /\ threshold = 150
    /\ wantOthers

\* C7: in percentage mode a percentage outside [0,100] makes the call fail
\* for every input, and nothing is selected or written.
C7_OutOfRangeFails ==
    (mode = "longest" /\ (threshold < 0 \/ threshold > 100)) =>
        /\ pc \notin {"write", "others", "done"}
        /\ output = <<>>
        /\ others = <<>>

(***************************************************************************)
(* Properties of parse_regions.                                            *)
(***************************************************************************)
WordStr(x) == x # <<>> /\ \A k \in 1..Len(x) : x[k] \in WordChars

DigStr(x) == x # <<>> /\ \A k \in 1..Len(x) : x[k] \in Digits

RECURSIVE Pow10(_)
Pow10(n) == IF n = 0 THEN 1 ELSE 10 * Pow10(n - 1)

\* The number a string of decimal digits denotes.
RECURSIVE Decimal(_)
Decimal(x) ==
    IF x = <<>> THEN 0
    ELSE DigitVal[Head(x)] * Pow10(Len(x) - 1) + Decimal(Tail(x))

\* The Region the grammar gives a string, before the ref_lengths default:
\* 'ref' is (ref, 0, absent), 'ref:N' is (ref, 0, N), 'ref:N-' is
\* (ref, N, absent) and 'ref:N-M' is (ref, N, M).  Empty for a string that
\* has none of the four forms.
GrammarRegions(x) ==
    (IF WordStr(x) THEN {[ref_name |-> x, start |-> 0, end |-> None]} ELSE {})
    \cup
    UNION {
        LET ref  == SubSeq(x, 1, c - 1)
            rest == SubSeq(x, c + 1, Len(x))
        IN  IF ~(x[c] = ":" /\ WordStr(ref)) THEN {}
            ELSE
              (IF DigStr(rest)
               THEN {[ref_name |-> ref, start |-> 0, end |-> Some(Decimal(rest))]}
               ELSE {})
              \cup
              UNION {
                  LET n == SubSeq(rest, 1, h - 1)
                      m == SubSeq(rest, h + 1, Len(rest))
                  IN  IF ~(rest[h] = "-" /\ DigStr(n)) THEN {}
                      ELSE IF m = <<>>
                      THEN {[ref_name |-> ref, start |-> Decimal(n), end |-> None]}
                      ELSE IF DigStr(m)
                      THEN {[ref_name |-> ref, start |-> Decimal(n),
                             end |-> Some(Decimal(m))]}
                      ELSE {}
                  : h \in 1..Len(rest)}
        : c \in 1..Len(x)}

WellFormed(x) == GrammarRegions(x) # {}

\* An absent end becomes ref_lengths[ref] when ref_lengths is given.
WithDefaultEnd(r) ==
    IF r.end = None /\ ref_lengths.given
    THEN [r EXCEPT !.end = Some(ref_lengths.map[r.ref_name])]
    ELSE r

LookupFails(r) ==
    r.end = None /\ ref_lengths.given /\ r.ref_name \notin DOMAIN ref_lengths.map

\* C8: parse_regions returns one Region per input string, in input order;
\* a string of one of the four forms gives the Region of its form, start is
\* always an integer, and an absent end stays absent without ref_lengths and
\* becomes ref_lengths[ref] with it.
C8_Decoding ==
    /\ (ppc = "done") =>
          /\ Len(result) = Len(regions)
          /\ \A k \in 1..Len(regions) :
                /\ result[k].start \in Nat
                /\ \A r \in GrammarRegions(regions[k]) :
                      /\ result[k] = WithDefaultEnd(r)
                      /\ (r.end = None /\ ~ref_lengths.given) => result[k].end = None
    /\ (\A k \in 1..Len(regions) :
            \E r \in GrammarRegions(regions[k]) : ~LookupFails(r))
          => ppc \in {"loop", "done"}

C8_Witness ==
    /\ ppc = "done"
    /\ ref_lengths.given
    /\ regions = <<Sample, <<"a", ":", "1", "0", "-">>>>
    /\ result = <<[ref_name |-> <<"a">>, start |-> 1, end |-> Some(0)],
                  [ref_name |-> <<"a">>, start |-> 10, end |-> Some(7)]>>

\* C9: parse_regions fails, returning nothing, whenever one of its input
\* strings has none of the four forms of the grammar, wherever it sits.
C9_MalformedFails ==
    (\E k \in 1..Len(regions) : ~WellFormed(regions[k])) =>
        /\ ppc # "done"
        /\ result = <<>>

(***************************************************************************)
(* Properties of fast_convert.                                             *)
(***************************************************************************)
\* C10: with conversion code 'qq' the qualities of the input are replaced by
\* the mock quality only when --discard_q is given; without it every output
\* record carries the qualities of its input record.
C10_QualityKept ==
    (cpc = "done" /\ convert = "qq") =>
        /\ Len(written) = Len(records)
        /\ \A k \in 1..Len(records) :
              written[k] = IF discard_q THEN MockQuality(records[k], mock_q)
                           ELSE records[k]

====
